---- MODULE Spec2Model ----
(***************************************************************************)
(* ID3v1 trailing-tag extraction of music-metadata                         *)
(* (lib/id3v1/ID3v1Parser.ts): the field codec, the 128-byte record        *)
(* decoder, the genre table, the extraction driver ID3v1Parser.parse and   *)
(* the presence probe hasID3v1Header, run against a tokenizer whose        *)
(* position both share.                                                    *)
(*                                                                         *)
(* A JavaScript string is a sequence of code points (naturals); a buffer   *)
(* is a sequence of bytes, buffer offset `off` (0-based) being element     *)
(* off + 1.  A JavaScript value that may be a string, a number or          *)
(* undefined is a record with a `kind` field.                              *)
(***************************************************************************)
EXTENDS Integers, Sequences, FiniteSets, TLC

(* ---- bounds of the model ---- *)

\* bytes of audio data that may precede the trailing 128-byte record
MaxExtra == 2

\* bytes the neighbouring-format parser may consume in one delegation
MaxApeRead == 2

\* longest buffer handed to the field codec when it is checked on its own
MaxFieldLen == 4

(* ---- Genre table, lines 18-47 ---- *)

Genres == <<
  "Blues", "Classic Rock", "Country", "Dance", "Disco", "Funk", "Grunge", "Hip-Hop",
  "Jazz", "Metal", "New Age", "Oldies", "Other", "Pop", "R&B", "Rap", "Reggae", "Rock",
  "Techno", "Industrial", "Alternative", "Ska", "Death Metal", "Pranks", "Soundtrack",
  "Euro-Techno", "Ambient", "Trip-Hop", "Vocal", "Jazz+Funk", "Fusion", "Trance",
  "Classical", "Instrumental", "Acid", "House", "Game", "Sound Clip", "Gospel", "Noise",
  "Alt. Rock", "Bass", "Soul", "Punk", "Space", "Meditative", "Instrumental Pop",
  "Instrumental Rock", "Ethnic", "Gothic", "Darkwave", "Techno-Industrial", "Electronic",
  "Pop-Folk", "Eurodance", "Dream", "Southern Rock", "Comedy", "Cult", "Gangsta Rap",
  "Top 40", "Christian Rap", "Pop/Funk", "Jungle", "Native American", "Cabaret",
  "New Wave", "Psychedelic", "Rave", "Showtunes", "Trailer", "Lo-Fi", "Tribal",
  "Acid Punk", "Acid Jazz", "Polka", "Retro", "Musical", "Rock & Roll", "Hard Rock",
  "Folk", "Folk/Rock", "National Folk", "Swing", "Fast-Fusion", "Bebob", "Latin",
  "Revival", "Celtic", "Bluegrass", "Avantgarde", "Gothic Rock", "Progressive Rock",
  "Psychedelic Rock", "Symphonic Rock", "Slow Rock", "Big Band", "Chorus",
  "Easy Listening", "Acoustic", "Humour", "Speech", "Chanson", "Opera", "Chamber Music",
  "Sonata", "Symphony", "Booty Bass", "Primus", "Porn Groove", "Satire", "Slow Jam",
  "Club", "Tango", "Samba", "Folklore", "Ballad", "Power Ballad", "Rhythmic Soul",
  "Freestyle", "Duet", "Punk Rock", "Drum Solo", "A Cappella", "Euro-House", "Dance Hall",
  "Goa", "Drum & Bass", "Club-House", "Hardcore", "Terror", "Indie", "BritPop",
  "Negerpunk", "Polsk Punk", "Beat", "Christian Gangsta Rap", "Heavy Metal", "Black Metal",
  "Crossover", "Contemporary Christian", "Christian Rock", "Merengue", "Salsa",
  "Thrash Metal", "Anime", "JPop", "Synthpop", "Abstract", "Art Rock", "Baroque",
  "Bhangra", "Big Beat", "Breakbeat", "Chillout", "Downtempo", "Dub", "EBM", "Eclectic",
  "Electro", "Electroclash", "Emo", "Experimental", "Garage", "Global", "IDM", "Illbient",
  "Industro-Goth", "Jam Band", "Krautrock", "Leftfield", "Lounge", "Math Rock",
  "New Romantic", "Nu-Breakz", "Post-Punk", "Post-Rock", "Psytrance", "Shoegaze",
  "Space Rock", "Trop Rock", "World Music", "Neoclassical", "Audiobook", "Audio Theatre",
  "Neue Deutsche Welle", "Podcast", "Indie Rock", "G-Funk", "Dubstep", "Garage Rock",
  "Psybient"
>>

(* ---- JavaScript values ---- *)

\* undefined
Undefined == [kind |-> "undefined", text |-> <<>>, num |-> 0, name |-> ""]

\* a string holding the code points s
StrVal(s) == [kind |-> "string", text |-> s, num |-> 0, name |-> ""]

\* a number
NumVal(n) == [kind |-> "number", text |-> <<>>, num |-> n, name |-> ""]

\* a string taken from the genre table
NameVal(g) == [kind |-> "name", text |-> <<>>, num |-> 0, name |-> g]

\* ToBoolean(v) && v !== '' (line 152), ToBoolean(v) (line 156)
Truthy(v) ==
  \/ v.kind = "string" /\ v.text # <<>>
  \/ v.kind = "number" /\ v.num # 0
  \/ v.kind = "name" /\ v.name # ""

(* ---- Field codec, lines 94-111 ---- *)

\* code points String.prototype.trim removes, within the single-byte range
WhiteSpace == {9, 10, 11, 12, 13, 32, 160}

\* StringType(len, 'latin1').get(buf, off): one code point per byte
StringType_get(len, buf, off) == [k \in 1..len |-> buf[off + k]]

\* x.indexOf('\0') + 1, 0 when x holds no null
IndexOfNull(x) ==
  IF \E k \in 1..Len(x) : x[k] = 0
  THEN CHOOSE k \in 1..Len(x) : x[k] = 0 /\ \A j \in 1..(k - 1) : x[j] # 0
  ELSE 0

\* util.trimRightNull: the string up to its first null
trimRightNull(x) ==
  LET pos0 == IndexOfNull(x)
  IN IF pos0 = 0 THEN x ELSE SubSeq(x, 1, pos0 - 1)

RECURSIVE TrimStart(_)
TrimStart(x) ==
  IF x # <<>> /\ Head(x) \in WhiteSpace THEN TrimStart(Tail(x)) ELSE x

RECURSIVE TrimEnd(_)
TrimEnd(x) ==
  IF x # <<>> /\ x[Len(x)] \in WhiteSpace
  THEN TrimEnd(SubSeq(x, 1, Len(x) - 1))
  ELSE x

\* String.prototype.trim
trim(x) == TrimEnd(TrimStart(x))

\* a codec that trims whitespace before it cuts at the first null
Id3v1StringType_getTrimFirst(len, buf, off) ==
  LET value == trimRightNull(trim(StringType_get(len, buf, off)))
  IN IF Len(value) > 0 THEN StrVal(value) ELSE Undefined

\* Id3v1StringType(len).get(buf, off), lines 105-110
Id3v1StringType_get(len, buf, off) ==
  LET value0 == StringType_get(len, buf, off)
      value1 == trimRightNull(value0)
      value2 == trim(value1)
  IN IF Len(value2) > 0 THEN StrVal(value2) ELSE Undefined

(* ---- Record layout, lines 68-92 ---- *)

\* Iid3v1Token.len
Iid3v1Len == 128

\* "TAG"
TAG == <<84, 65, 71>>

\* UINT8.get(buf, off)
UINT8_get(buf, off) == buf[off + 1]

\* null: no record
NullHeader ==
  [present |-> FALSE, header |-> Undefined, title |-> Undefined,
   artist |-> Undefined, album |-> Undefined, year |-> Undefined,
   comment |-> Undefined, zeroByte |-> 0, track |-> NumVal(0), genre |-> 0]

\* the record with the fields decoded at their offsets, whatever the header
Record(buf, off, header, trackOff) ==
  [present |-> TRUE,
   header |-> header,
   title |-> Id3v1StringType_get(30, buf, off + 3),
   artist |-> Id3v1StringType_get(30, buf, off + 33),
   album |-> Id3v1StringType_get(30, buf, off + 63),
   year |-> Id3v1StringType_get(4, buf, off + 93),
   comment |-> Id3v1StringType_get(28, buf, off + 97),
   zeroByte |-> UINT8_get(buf, off + 127),
   track |-> NumVal(UINT8_get(buf, trackOff)),
   genre |-> UINT8_get(buf, off + 127)]

\* a decoder that accepts a window whatever its first 3 bytes are
Iid3v1Token_getAnyHeader(buf, off) ==
  Record(buf, off, Id3v1StringType_get(3, buf, off), off + 126)

\* a decoder that takes the track from byte 125
Iid3v1Token_getTrack125(buf, off) ==
  LET header == Id3v1StringType_get(3, buf, off)
  IN IF header = StrVal(TAG)
     THEN Record(buf, off, header, off + 125)
     ELSE NullHeader

\* Iid3v1Token.get(buf, off), lines 76-91
Iid3v1Token_get(buf, off) ==
  LET header == Id3v1StringType_get(3, buf, off)
  IN IF header = StrVal(TAG)
     THEN Record(buf, off, header, off + 126)
     ELSE NullHeader

(* ---- Genre lookup, lines 122-127 ---- *)

\* ID3v1Parser.getGenre
getGenre(genreIndex) ==
  IF genreIndex < Len(Genres) THEN NameVal(Genres[genreIndex + 1]) ELSE Undefined

\* the keys of the emission loop in another order
propsYearFirst == <<"title", "artist", "album", "comment", "year", "track">>

\* props, line 150
props == <<"title", "artist", "album", "comment", "track", "year">>

(* ---- State ---- *)

VARIABLES
  sizeKnown,      \* tokenizer.fileInfo.size is defined
  size,           \* the length of the source in bytes
  position,       \* tokenizer.position
  file,           \* what the source holds in its last 128 bytes, field by field
  apeHeader,      \* options.apeHeader: [present, offset]
  pc,             \* where ID3v1Parser.parse stands
  header,         \* the local `header` of parse
  idx,            \* the loop index of parse over props
  emitted,        \* the tags handed to metadata.addTag, in order
  reads,          \* the reads issued on the tokenizer, in order
  hist,           \* what parse observed, kept for the properties
  ppc,            \* where hasID3v1Header stands
  savedPosition,  \* the local `position` of hasID3v1Header
  tag,            \* the local `tag` buffer of hasID3v1Header
  result,         \* what hasID3v1Header returned
  phist,          \* the tokenizer position at the probe's call and exit
  cpc,            \* where the stand-alone codec run stands
  cbuf,           \* its buffer
  clen,           \* its field length
  coff,           \* its offset
  cout            \* its result

tokenizerVars == <<sizeKnown, size, file, apeHeader>>
parseVars == <<pc, header, idx, emitted, hist>>
probeVars == <<ppc, savedPosition, tag, result, phist>>
codecVars == <<cpc, cbuf, clen, coff, cout>>
vars == <<tokenizerVars, position, reads, parseVars, probeVars, codecVars>>

(* ---- Sources the model runs on ---- *)

\* s followed by nulls up to width n
Pad(s, n) == s \o [k \in 1..(n - Len(s)) |-> 0]

\* a 128-byte window laid out as lines 77-89 read it
MakeWindow(sig, title, artist, album, year, comment, b125, track, genre) ==
  sig \o Pad(title, 30) \o Pad(artist, 30) \o Pad(album, 30) \o Pad(year, 4)
      \o Pad(comment, 28) \o <<b125, track, genre>>

\* the contents of a source's last 128 bytes
FileOf(sig, title, artist, album, year, comment, b125, track, genre) ==
  [sig |-> sig, title |-> title, artist |-> artist, album |-> album, year |-> year,
   comment |-> comment, b125 |-> b125, track |-> track, genre |-> genre]

\* the 128 bytes a read at size - 128 delivers
Window(f) ==
  MakeWindow(f.sig, f.title, f.artist, f.album, f.year, f.comment, f.b125, f.track,
             f.genre)

\* the last 128 bytes of the source
tail == Window(file)

\* a source too short to hold a record
ShortFile == FileOf(<<0, 0, 0>>, <<>>, <<>>, <<>>, <<>>, <<>>, 0, 0, 0)

\* "TAG", "TAg", "TA" + null, " TA"
Signatures == {TAG, <<84, 65, 103>>, <<84, 65, 0>>, <<32, 84, 65>>}

\* "Title X" / nulls
Titles == {<<84, 105, 116, 108, 101, 32, 88>>, <<>>}
\* " a" + null + "b" / spaces then nulls
Artists == {<<32, 97, 0, 98>>, <<32, 32>>}
\* nulls / "Al" followed by spaces
Albums == {<<>>, <<65, 108, 32, 32>>}
\* "2001" / nulls
Years == {<<50, 48, 48, 49>>, <<>>}
\* "c" / null then "x"
Comments == {<<99>>, <<0, 120>>}

\* every combination of the field contents above
FilesAll ==
  { FileOf(sig, t, ar, al, y, c, b, tr, g) :
      sig \in Signatures, t \in Titles, ar \in Artists, al \in Albums,
      y \in Years, c \in Comments, b \in {0, 97}, tr \in {0, 5},
      g \in {0, 17, 191, 192, 255} }

\* a record with five fields and a known genre, and one with nothing to emit
FilesSmall ==
  { FileOf(sig, <<84, 105>>, <<65, 114>>, <<>>, <<50, 48, 48, 49>>, <<>>, 0, 5, 17) :
      sig \in Signatures }
  \cup { FileOf(sig, <<>>, <<>>, <<>>, <<>>, <<>>, 0, 0, 255) : sig \in Signatures }

Sizes == {0, Iid3v1Len - 1} \cup { Iid3v1Len + k : k \in 0..MaxExtra }

Positions(sz) == { p \in 0..sz : p <= MaxExtra + 1 \/ p = sz }

NoApe == [present |-> FALSE, offset |-> 0]

ApeHeaders(sz) ==
  {NoApe} \cup { [present |-> TRUE, offset |-> o] : o \in { x \in 0..(MaxExtra + 1) : x <= sz } }

NoHist == [posAtCall |-> -1, duringProbe |-> FALSE, apeStart |-> -1,
           apeDone |-> FALSE, guardPos |-> -1, readFailed |-> FALSE]

NoProbeHist == [atCall |-> -1, atExit |-> -1]

ParseInit(start) ==
  /\ pc = start /\ header = NullHeader /\ idx = 0 /\ emitted = <<>>
  /\ reads = <<>> /\ hist = NoHist

ProbeInit(start) ==
  /\ ppc = start /\ savedPosition = 0 /\ tag = <<0, 0, 0>> /\ result = FALSE
  /\ phist = NoProbeHist

CodecOff == cpc = "off" /\ cbuf = <<>> /\ clen = 0 /\ coff = 0 /\ cout = Undefined

\* parse and the probe over any source, either of them called first
Init ==
  /\ sizeKnown \in BOOLEAN
  /\ size \in Sizes
  /\ position \in Positions(size)
  /\ file \in (IF size >= Iid3v1Len THEN FilesSmall ELSE {ShortFile})
  /\ apeHeader \in ApeHeaders(size)
  /\ ParseInit("idle") /\ ProbeInit("idle") /\ CodecOff

\* parse alone over every record content
InitRecord ==
  /\ sizeKnown = TRUE
  /\ size = Iid3v1Len + MaxExtra
  /\ position = 0
  /\ file \in FilesAll
  /\ apeHeader \in {NoApe, [present |-> TRUE, offset |-> 0]}
  /\ ParseInit("idle") /\ ProbeInit("off") /\ CodecOff

\* bytes the codec is run on: null, space, no-break space, "a", "b"
CodecBytes == {0, 32, 160, 97, 98}

\* the codec alone over every buffer
InitCodec ==
  /\ sizeKnown = FALSE /\ size = 0 /\ position = 0 /\ file = ShortFile
  /\ apeHeader = NoApe
  /\ ParseInit("off") /\ ProbeInit("off")
  /\ cpc = "ready"
  /\ cbuf \in [1..MaxFieldLen -> CodecBytes]
  /\ clen \in 1..MaxFieldLen
  /\ coff \in 0..(MaxFieldLen - clen)
  /\ cout = Undefined

(* ---- Tokenizer operations the code calls ---- *)

\* the position after tokenizer.ignore(length): at most to the end
ignore(pos, length) ==
  IF length > size - pos THEN pos + (size - pos) ELSE pos + length

ReadOf(by, at, len, from) == [by |-> by, at |-> at, len |-> len, from |-> from]

Id3Tag(id, value) == [ns |-> "ID3v1", id |-> id, value |-> value]

(* ---- APEv2Parser.parseTags, the neighbouring-format parser ---- *)

\* a tag the neighbouring-format parser hands to the collector
ApeTag == [ns |-> "APEv2", id |-> "item", value |-> StrVal(<<120>>)]

\* parseTags can consume k bytes from where the tokenizer stands
ApeCanRead(k) == position + k <= size

\* the collector after parseTags consumed k bytes
ApeEmitted(k) == IF k > 0 THEN Append(emitted, ApeTag) ELSE emitted

\* the reads issued after parseTags consumed k bytes
ApeReads(k) ==
  IF k > 0 THEN Append(reads, ReadOf("ape", position, k, position)) ELSE reads

(* ---- ID3v1Parser.parse, lines 129-161 ---- *)

\* a guard that lets the read start one byte into the record
AlreadyConsumedOffByOne(pos, offset) == pos > offset + 1

\* line 143
AlreadyConsumed(pos, offset) == pos > offset

\* lines 142-147 run from position pos: the guard, then the window read issued
FixedRecordAttempt(pos, h, rd) ==
  LET offset == size - Iid3v1Len
  IN /\ hist' = [h EXCEPT !.guardPos = pos]
     /\ IF AlreadyConsumed(pos, offset)
        THEN /\ pc' = "done"
             /\ position' = pos
             /\ reads' = rd
        ELSE /\ pc' = "read"
             /\ position' = offset
             /\ reads' = Append(rd, ReadOf("parse", offset, Iid3v1Len, pos))

\* lines 131-140, then 142-147 when no neighbouring tag is known
ParseCall ==
  /\ pc = "idle"
  /\ LET h == [hist EXCEPT !.posAtCall = position, !.duringProbe = (ppc = "read")]
     IN IF ~sizeKnown \/ size = 0
        THEN /\ pc' = "done"
             /\ hist' = h
             /\ UNCHANGED <<position, reads>>
        ELSE IF apeHeader.present
        THEN LET start == ignore(position, apeHeader.offset - position)
             IN /\ pc' = "ape"
                /\ position' = start
                /\ hist' = [h EXCEPT !.apeStart = start]
                /\ reads' = reads
        ELSE FixedRecordAttempt(position, h, reads)
  /\ UNCHANGED <<tokenizerVars, header, idx, emitted, probeVars, codecVars>>

\* a delegation after which parse returns without trying the fixed record
ApeReturnInstead ==
  /\ pc = "ape"
  /\ \E k \in 0..MaxApeRead :
       /\ ApeCanRead(k)
       /\ emitted' = ApeEmitted(k)
       /\ reads' = ApeReads(k)
       /\ position' = position + k
       /\ hist' = [hist EXCEPT !.apeDone = TRUE, !.guardPos = position + k]
       /\ pc' = "done"
  /\ UNCHANGED <<tokenizerVars, header, idx, probeVars, codecVars>>

\* line 139 completes after parseTags consumed k bytes; then lines 142-147
ApeReturn ==
  /\ pc = "ape"
  /\ \E k \in 0..MaxApeRead :
       /\ ApeCanRead(k)
       /\ emitted' = ApeEmitted(k)
       /\ FixedRecordAttempt(position + k, [hist EXCEPT !.apeDone = TRUE], ApeReads(k))
  /\ UNCHANGED <<tokenizerVars, header, idx, probeVars, codecVars>>

\* line 139 throws
ApeFail ==
  /\ pc = "ape"
  /\ pc' = "failed"
  /\ UNCHANGED <<tokenizerVars, position, reads, header, idx, emitted, hist,
                 probeVars, codecVars>>

\* line 147 completes with the whole window, lines 148-149 and 158-160
ReadDone ==
  /\ pc = "read"
  /\ position' = position + Iid3v1Len
  /\ header' = Iid3v1Token_get(tail, 0)
  /\ IF header'.present
     THEN pc' = "props" /\ idx' = 1
     ELSE pc' = "done" /\ idx' = idx
  /\ UNCHANGED <<tokenizerVars, reads, emitted, hist, probeVars, codecVars>>

\* a failed read after which the bytes at hand are decoded and emitted all the same
ReadFailSwallowed ==
  /\ pc = "read"
  /\ \E n \in {0, Iid3v1Len - 1} : position' = position + n
  /\ hist' = [hist EXCEPT !.readFailed = TRUE]
  /\ header' = Iid3v1Token_get(tail, 0)
  /\ IF header'.present
     THEN pc' = "props" /\ idx' = 1
     ELSE pc' = "done" /\ idx' = idx
  /\ UNCHANGED <<tokenizerVars, reads, emitted, probeVars, codecVars>>

\* line 147 throws: an I/O fault, or fewer than 128 bytes read
ReadFail ==
  /\ pc = "read"
  /\ \E n \in {0, Iid3v1Len - 1} : position' = position + n
  /\ hist' = [hist EXCEPT !.readFailed = TRUE]
  /\ pc' = "failed"
  /\ UNCHANGED <<tokenizerVars, reads, header, idx, emitted, probeVars, codecVars>>

\* one turn of the loop, lines 151-154
ParseProp ==
  /\ pc = "props"
  /\ LET id == props[idx]
     IN emitted' = (IF Truthy(header[id])
                    THEN Append(emitted, Id3Tag(id, header[id]))
                    ELSE emitted)
  /\ IF idx = Len(props)
     THEN pc' = "genre" /\ idx' = idx
     ELSE pc' = pc /\ idx' = idx + 1
  /\ UNCHANGED <<tokenizerVars, position, reads, header, hist, probeVars, codecVars>>

\* lines 155-157
ParseGenre ==
  /\ pc = "genre"
  /\ LET genre == getGenre(header.genre)
     IN emitted' = (IF Truthy(genre)
                    THEN Append(emitted, Id3Tag("genre", genre))
                    ELSE emitted)
  /\ pc' = "done"
  /\ UNCHANGED <<tokenizerVars, position, reads, header, idx, hist, probeVars, codecVars>>

(* ---- hasID3v1Header, lines 168-177 ---- *)

\* lines 169-172, or 176 when the size is below 128 or undefined
ProbeCall ==
  /\ ppc = "idle"
  /\ IF sizeKnown /\ size >= 128
     THEN /\ savedPosition' = position
          /\ position' = size - 128
          /\ reads' = Append(reads, ReadOf("probe", size - 128, 3, position))
          /\ ppc' = "read"
          /\ result' = result
          /\ phist' = [phist EXCEPT !.atCall = position]
     ELSE /\ ppc' = "done"
          /\ result' = FALSE
          /\ phist' = [atCall |-> position, atExit |-> position]
          /\ UNCHANGED <<savedPosition, position, reads>>
  /\ UNCHANGED <<tokenizerVars, parseVars, tag, codecVars>>

\* a probe that returns from where the read left the tokenizer
ProbeReadDoneNoRestore ==
  /\ ppc = "read"
  /\ tag' = SubSeq(tail, 1, 3)
  /\ position' = position + 3
  /\ result' = (tag' = TAG)
  /\ ppc' = "done"
  /\ phist' = [phist EXCEPT !.atExit = position']
  /\ UNCHANGED <<tokenizerVars, reads, parseVars, savedPosition, codecVars>>

\* line 172 completes, lines 173-174
ProbeReadDone ==
  /\ ppc = "read"
  /\ tag' = SubSeq(tail, 1, 3)
  /\ position' = savedPosition
  /\ result' = (StringType_get(3, tag', 0) = TAG)
  /\ ppc' = "done"
  /\ phist' = [phist EXCEPT !.atExit = position']
  /\ UNCHANGED <<tokenizerVars, reads, parseVars, savedPosition, codecVars>>

\* line 172 throws after n bytes
ProbeReadFail ==
  /\ ppc = "read"
  /\ \E n \in 0..2 : position' = position + n
  /\ ppc' = "failed"
  /\ phist' = [phist EXCEPT !.atExit = position']
  /\ UNCHANGED <<tokenizerVars, reads, parseVars, savedPosition, tag, result, codecVars>>

(* ---- the field codec run on its own ---- *)

CodecGet ==
  /\ cpc = "ready"
  /\ cout' = Id3v1StringType_get(clen, cbuf, coff)
  /\ cpc' = "done"
  /\ UNCHANGED <<tokenizerVars, position, reads, parseVars, probeVars, cbuf, clen, coff>>

(* ---- Specifications ---- *)

ParseNext ==
  \/ ParseCall \/ ApeReturn \/ ApeFail \/ ReadDone \/ ReadFail
  \/ ParseProp \/ ParseGenre

ProbeNext == ProbeCall \/ ProbeReadDone \/ ProbeReadFail

Next == ParseNext \/ ProbeNext

Spec == Init /\ [][Next]_vars

SpecRecord == InitRecord /\ [][ParseNext]_vars

SpecCodec == InitCodec /\ [][CodecGet]_vars

(* ---- What the properties speak of ---- *)

\* the tags this parser itself emitted
IDTags == SelectSeq(emitted, LAMBDA t : t.ns = "ID3v1")

\* the reads of the 128-byte window
ParseReads == SelectSeq(reads, LAMBDA r : r.by = "parse")

\* the reads of the probe
ProbeReads == SelectSeq(reads, LAMBDA r : r.by = "probe")

\* the signature bytes the source holds at size - 128
Signature == SubSeq(tail, 1, 3)

IsPrefix(s, t) == Len(s) <= Len(t) /\ s = SubSeq(t, 1, Len(s))

(* C1: hasID3v1Header returns with the tokenizer at the position it was    *)
(* called at, whether it returns true or false, and when the size is       *)
(* below 128 (or undefined) it returns false and has issued no read.       *)
ProbeLeavesPosition ==
  ppc = "done" =>
    /\ phist.atExit = phist.atCall
    /\ (~sizeKnown \/ size < 128) => (result = FALSE /\ ProbeReads = <<>>)

\* the probe has read away from where the tokenizer stood and answered true
ProbeTrueAwayFromRecord ==
  /\ ppc = "done" /\ result = TRUE
  /\ phist.atCall # size - 128
  /\ Len(ProbeReads) = 1

(* C2 as stated: parse called with the position beyond size - 128 emits    *)
(* no tag and issues no read.                                              *)
LatePositionNoTagNoRead ==
  (pc # "idle" /\ sizeKnown /\ hist.posAtCall > size - Iid3v1Len) =>
    /\ emitted = <<>>
    /\ \A k \in 1..Len(reads) : reads[k].by \notin {"parse", "ape"}

(* C2 amended: when the position exceeds size - 128 where the fixed        *)
(* record is attempted (after the skip to and the delegation of a          *)
(* neighbouring tag, if any) parse emits no ID3v1 tag and issues no window *)
(* read; without neighbouring tag info that is the position at the call,   *)
(* and then no tag at all is emitted and no read at all is issued.         *)
ConsumedNoTagNoRead ==
  /\ (hist.guardPos # -1 /\ hist.guardPos > size - Iid3v1Len) =>
       (IDTags = <<>> /\ ParseReads = <<>>)
  /\ (pc # "idle" /\ sizeKnown /\ ~apeHeader.present
        /\ hist.posAtCall > size - Iid3v1Len) =>
       /\ emitted = <<>>
       /\ \A k \in 1..Len(reads) : reads[k].by \notin {"parse", "ape"}

\* a record is there, the delegation left the position beyond its start
ConsumedBehindNeighbour ==
  /\ pc = "done" /\ apeHeader.present /\ hist.apeDone
  /\ hist.guardPos > size - Iid3v1Len
  /\ size >= Iid3v1Len /\ Signature = TAG

(* C3: parse emits an ID3v1 tag only if the size was known, the position   *)
(* did not exceed size - 128 when the window read was issued, and the      *)
(* window read at size - 128 starts with exactly "TAG"; an undefined size  *)
(* gives no tag, and the decoded record is either absent or the fully      *)
(* decoded record of a window that starts with "TAG".                      *)
GatedEmission ==
  /\ IDTags # <<>> =>
       /\ sizeKnown /\ size # 0
       /\ hist.guardPos # -1 /\ hist.guardPos <= size - Iid3v1Len
       /\ ParseReads = <<ReadOf("parse", size - Iid3v1Len, Iid3v1Len, hist.guardPos)>>
       /\ Signature = TAG
  /\ ~sizeKnown => (IDTags = <<>> /\ ParseReads = <<>>)
  /\ header # NullHeader =>
       /\ Signature = TAG
       /\ header = Record(tail, 0, StrVal(TAG), 126)
  /\ (pc \in {"props", "genre"} \/ Signature # TAG) =>
       (header = NullHeader <=> Signature # TAG)

\* a tag of the record has been emitted
SomeTagEmitted == IDTags # <<>> /\ pc = "done"

\* the tag of a text field of the window, if it decodes to a non-empty string
TextTag(id, len, off) ==
  LET v == Id3v1StringType_get(len, tail, off)
  IN IF v.kind = "string" /\ Len(v.text) > 0 THEN <<Id3Tag(id, v)>> ELSE <<>>

\* the tags a record in the window is to give, in order
ExpectedTags ==
  TextTag("title", 30, 3) \o TextTag("artist", 30, 33) \o TextTag("album", 30, 63)
    \o TextTag("comment", 28, 97)
    \o (IF tail[127] # 0 THEN <<Id3Tag("track", NumVal(tail[127]))>> ELSE <<>>)
    \o TextTag("year", 4, 93)
    \o (IF tail[128] < 192
        THEN <<Id3Tag("genre", NameVal(Genres[tail[128] + 1]))>>
        ELSE <<>>)

(* C4: for a present record the tags emitted are, in this order, one for   *)
(* each of title, artist, album, comment, track, year whose decoded value  *)
(* is present and non-empty, then one genre tag holding the table entry    *)
(* iff the genre code is below the table length; nothing else, no key      *)
(* twice.                                                                  *)
EmissionOrder ==
  /\ IsPrefix(IDTags, ExpectedTags)
  /\ (header.present /\ pc = "done") => IDTags = ExpectedTags
  /\ \A j, k \in 1..Len(IDTags) : IDTags[j].id = IDTags[k].id => j = k

\* all seven tags have been emitted
AllSevenEmitted == pc = "done" /\ Len(IDTags) = 7

(* C5: when the read of the window fails, parse ends in failure, has       *)
(* issued that read once only, holds no record and has emitted no ID3v1    *)
(* tag.                                                                    *)
FailedReadEmitsNothing ==
  hist.readFailed =>
    /\ pc = "failed"
    /\ Len(ParseReads) = 1
    /\ header = NullHeader
    /\ IDTags = <<>>

\* the read of a window that holds a record has failed
RecordReadFailed == hist.readFailed /\ Signature = TAG /\ pc = "failed"

(* C6: hasID3v1Header leaves the tokenizer at the position it was called   *)
(* at on every exit, the exit by a failing read included.                  *)
ProbeRestoresOnEveryExit ==
  ppc \in {"done", "failed"} => phist.atExit = phist.atCall

(* C7: with neighbouring tag info and a known size, parse skips to the     *)
(* neighbouring tag's offset, delegates and waits; before the delegation   *)
(* has completed no window read is issued and no ID3v1 tag emitted, and    *)
(* once it has completed with the position not beyond size - 128 the       *)
(* window is read at size - 128 and decoded.                               *)
DelegationThenRecord ==
  /\ (apeHeader.present /\ sizeKnown /\ size # 0 /\ pc # "idle") =>
       hist.apeStart = apeHeader.offset
  /\ (apeHeader.present /\ ~hist.apeDone) => (IDTags = <<>> /\ ParseReads = <<>>)
  /\ (hist.apeDone /\ hist.guardPos <= size - Iid3v1Len) =>
       /\ ParseReads = <<ReadOf("parse", size - Iid3v1Len, Iid3v1Len, hist.guardPos)>>
       /\ pc \in {"read", "props", "genre", "done", "failed"}
       /\ pc \in {"props", "genre", "done"} => header = Iid3v1Token_get(tail, 0)
       /\ pc = "failed" => hist.readFailed
  /\ \A j, k \in 1..Len(reads) :
       (reads[j].by = "ape" /\ reads[k].by = "parse") => j < k

\* both the neighbouring tag and the fixed record have been extracted
BothExtracted ==
  /\ pc = "done" /\ apeHeader.present /\ hist.apeDone
  /\ \E k \in 1..Len(emitted) : emitted[k].ns = "APEv2"
  /\ IDTags # <<>>

(* C8: while hasID3v1Header waits for its read, no other operation sees    *)
(* the tokenizer at a position other than the one the probe was called     *)
(* at.                                                                     *)
ProbeIsAtomic ==
  hist.duringProbe => hist.posAtCall = savedPosition

\* the field the codec was run on
Field == SubSeq(cbuf, coff + 1, coff + clen)

\* the field up to its first null
Content(f) ==
  LET n == CHOOSE k \in 0..Len(f) :
             /\ \A j \in 1..k : f[j] # 0
             /\ (k < Len(f) => f[k + 1] = 0)
  IN SubSeq(f, 1, n)

\* a string without null, then nulls, then spaces
PaddedShape(f) ==
  \E a, b \in 0..Len(f) :
    /\ a <= b
    /\ \A j \in 1..a : f[j] # 0
    /\ \A j \in (a + 1)..b : f[j] = 0
    /\ \A j \in (b + 1)..Len(f) : f[j] = 32

Printable == 32..126

\* s up to its last character that is no space
WithoutTrailingSpaces(s) ==
  LET n == CHOOSE k \in 0..Len(s) :
             /\ (k > 0 => s[k] # 32)
             /\ \A j \in (k + 1)..Len(s) : s[j] = 32
  IN SubSeq(s, 1, n)

(* C9 as stated: a field holding a printable string s, then nulls, then    *)
(* spaces decodes to s without its trailing spaces, absent when nothing    *)
(* is left.                                                                *)
PaddedFieldTrailingTrim ==
  (cpc = "done" /\ PaddedShape(Field)
     /\ \A j \in 1..Len(Content(Field)) : Content(Field)[j] \in Printable) =>
    LET r == WithoutTrailingSpaces(Content(Field))
    IN cout = (IF r = <<>> THEN Undefined ELSE StrVal(r))

(* C9 amended: a field decodes to what precedes its first null, with the   *)
(* leading as well as the trailing whitespace removed, and to absent when  *)
(* that leaves nothing; so the cut at the first null comes before the      *)
(* trim, no padding is ever part of the result, and a field of nulls and   *)
(* spaces only decodes to absent.                                          *)
FieldDecoding ==
  cpc = "done" =>
    LET s == Content(Field)
        kept == { k \in 1..Len(s) : s[k] \notin WhiteSpace }
    IN IF kept = {}
       THEN cout = Undefined
       ELSE LET lo == CHOOSE k \in kept : \A j \in kept : k <= j
                hi == CHOOSE k \in kept : \A j \in kept : j <= k
            IN cout = StrVal(SubSeq(s, lo, hi))

\* a string with a leading space, then a null, then a space
PaddedFieldDecoded ==
  /\ cpc = "done" /\ clen = 4
  /\ Field[1] = 32 /\ Field[2] = 97 /\ Field[3] = 0 /\ Field[4] = 32
  /\ cout = StrVal(<<97>>)

(* C10: for a present record a track tag is emitted exactly when byte 126  *)
(* is not 0, its value is byte 126, and byte 125 plays no part.            *)
TrackFromByte126 ==
  (header.present /\ pc = "done") =>
    LET tracks == SelectSeq(IDTags, LAMBDA t : t.id = "track")
    IN IF tail[127] # 0
       THEN tracks = <<Id3Tag("track", NumVal(tail[127]))>>
       ELSE tracks = <<>>

\* a track emitted from a record whose byte 125 is no zero separator
TrackWithoutSeparator ==
  /\ pc = "done" /\ tail[126] # 0 /\ tail[127] # 0
  /\ \E k \in 1..Len(IDTags) : IDTags[k] = Id3Tag("track", NumVal(tail[127]))

====
